---- MODULE Spec2Model ----
(***************************************************************************)
(* A model of sunflower/common.py: the formatting helpers, the XDG path    *)
(* helpers, executable_exists, is_gui_app, the file name codecs and the    *)
(* memoized monospace font lookup.                                         *)
(*                                                                         *)
(* Representation.  A Python str is a sequence of one-character strings,   *)
(* or, where the code only splits, joins and compares, a sequence of       *)
(* tokens: the separator characters stay tokens of their own and a run of  *)
(* other characters is one opaque token.  A Python bytes is a sequence of  *)
(* integers 0..255, a str of file name characters a sequence of code       *)
(* points.  A value returned or raised by a call is a record               *)
(*     [kind : "return" | "raise", type : the Python type, val : payload]. *)
(* A size is held by its digits in base 1000 or 1024 (least significant    *)
(* first), since the sizes of interest reach multiplier^5.                 *)
(***************************************************************************)
EXTENDS Integers, Sequences, FiniteSets, TLC

VARIABLES
    call,                   \* the last call made: [op, args, result]
    environ,                \* os.environ: variable name -> value or Unset
    fs,                     \* the file system: dirs, directory entries, user-dirs.dirs
    MONOSPACE_FONT_STRING,  \* the module global of common.py
    desktop,                \* the desktop settings: schema present?, font setting
    queries,                \* how many times the settings schema was looked up
    first_call,             \* the first get_monospace_font_string: its result, the settings then
    child_env               \* the environment handed to the last spawned child

vars == <<call, environ, fs, MONOSPACE_FONT_STRING, desktop, queries, first_call, child_env>>

----------------------------------------------------------------------------
(* Python values *)

None == [kind |-> "return", type |-> "NoneType", val |-> <<>>]

PyStr(s) == [kind |-> "return", type |-> "str", val |-> s]

PyInt(n) == [kind |-> "return", type |-> "int", val |-> n]

PyBool(b) == [kind |-> "return", type |-> "bool", val |-> b]

PyBytes(b) == [kind |-> "return", type |-> "bytes", val |-> b]

Raise(exc) == [kind |-> "raise", type |-> exc, val |-> <<>>]

\* a call that was entered and has not returned yet
Pending == [kind |-> "pending", type |-> "", val |-> <<>>]

NoFirst == [made |-> FALSE, result |-> None, desktop |-> <<>>]

----------------------------------------------------------------------------
(* Decimal and octal text of a natural number *)

Digit(d) == <<"0", "1", "2", "3", "4", "5", "6", "7", "8", "9">>[d + 1]

RECURSIVE ToBase(_, _)
ToBase(n, b) == IF n < b THEN <<Digit(n)>> ELSE ToBase(n \div b, b) \o <<Digit(n % b)>>

DecStr(n) == ToBase(n, 10)

RECURSIVE Spaces(_)
Spaces(n) == IF n <= 0 THEN <<>> ELSE <<" ">> \o Spaces(n - 1)

\* the minimum field width of a format spec such as '{0:3.1f}': right-aligned
PadLeft(s, width) == Spaces(width - Len(s)) \o s

RECURSIVE ZeroPad(_, _)
ZeroPad(s, width) == IF Len(s) >= width THEN s ELSE ZeroPad(<<"0">> \o s, width)

----------------------------------------------------------------------------
(* class SizeFormat *)

SizeFormat_LOCAL == 0

SizeFormat_SI == 1

SizeFormat_IEC == 2

multiplier(format_type) == IF format_type = SizeFormat_SI THEN 1000 ELSE 1024

unit_names(format_type) ==
    IF format_type = SizeFormat_SI
    THEN <<<<"B">>, <<"k", "B">>, <<"M", "B">>, <<"G", "B">>, <<"T", "B">>>>
    ELSE <<<<"B">>, <<"K", "i", "B">>, <<"M", "i", "B">>, <<"G", "i", "B">>, <<"T", "i", "B">>>>

----------------------------------------------------------------------------
(* The number the loop of format_size divides: ip holds the digits of the   *)
(* integer part in base m, least significant first, fp the digits of the    *)
(* fraction, most significant first.                                        *)

Number(limbs) == [ip |-> limbs, fp |-> <<>>]

\* size < multiplier
LessThanBase(x) == \A j \in 2..Len(x.ip) : x.ip[j] = 0

\* size /= multiplier
DivByBase(x) ==
    [ip |-> IF Len(x.ip) > 1 THEN Tail(x.ip) ELSE <<0>>, fp |-> <<Head(x.ip)>> \o x.fp]

\* ten times a fraction: carry is the integer part, rem the digits of the rest
RECURSIVE TimesTen(_, _)
TimesTen(fp, m) ==
    IF fp = <<>> THEN [carry |-> 0, rem |-> <<>>]
    ELSE LET rest == TimesTen(Tail(fp), m)
             v == 10 * Head(fp) + rest.carry
         IN  [carry |-> v \div m, rem |-> <<v % m>> \o rest.rem]

\* the tenths a value below m is rounded to by a '.1f' conversion.  A double is
\* converted exactly and a tie goes to the even digit; a tie of the decimal
\* value is a tie of the double only at .25 and .75, any other decimal tie is a
\* double just above or just below it, and either neighbour is possible.
RoundTenthsTrunc(x, m) == {x.ip[1] * 10 + TimesTen(x.fp, m).carry}

RoundTenths(x, m) ==
    LET t == TimesTen(x.fp, m)
        tt == x.ip[1] * 10 + t.carry
        half == m \div 2
        restZero == \A j \in 2..Len(t.rem) : t.rem[j] = 0
        above == t.rem # <<>> /\ (t.rem[1] > half \/ (t.rem[1] = half /\ ~restZero))
        tie == t.rem # <<>> /\ t.rem[1] = half /\ restZero
    IN  IF above THEN {tt + 1}
        ELSE IF tie THEN (IF t.carry \in {2, 7}
                          THEN {IF tt % 2 = 0 THEN tt ELSE tt + 1}
                          ELSE {tt, tt + 1})
        ELSE {tt}

\* '{0:3.1f}'.format(x)
Format_3_1f(x, m) ==
    {PadLeft(DecStr(r \div 10) \o <<".">> \o <<Digit(r % 10)>>, 3) : r \in RoundTenths(x, m)}

\* '{0:3.0f}'.format(x), of the integer the first pass of the loop formats
Format_3_0f(x, m) == {PadLeft(DecStr(x.ip[1]), 3)}

\* locale.format('%d', size, True), of the Pythons that have locale.format: the
\* digits in groups of three, sep the separator of the locale (none in the C locale)
RECURSIVE Grouped(_, _)
Grouped(limbs, sep) ==
    IF Len(limbs) > 1 /\ limbs[Len(limbs)] = 0 THEN Grouped(SubSeq(limbs, 1, Len(limbs) - 1), sep)
    ELSE IF Len(limbs) = 1 THEN DecStr(limbs[1])
    ELSE Grouped(Tail(limbs), sep) \o sep \o ZeroPad(DecStr(Head(limbs)), 3)

RECURSIVE format_size_loop(_, _, _, _)
format_size_loop(x, names, m, result) ==
    IF names = <<>> THEN {result}
    ELSE IF LessThanBase(x)
         THEN LET name == Head(names)
                  texts == IF name # <<"B">> THEN Format_3_1f(x, m) ELSE Format_3_0f(x, m)
              IN  {PyStr(t \o <<" ">> \o name) : t \in texts}
         ELSE format_size_loop(DivByBase(x), Tail(names), m, result)

\* format_size(size, format_type, include_unit): the set of possible results;
\* thousands_sep is the separator of the current locale
format_size(size, format_type, include_unit, thousands_sep) ==
    IF format_type = SizeFormat_LOCAL
    THEN {PyStr(Grouped(size, thousands_sep) \o (IF include_unit THEN <<" ", "B">> ELSE <<>>))}
    ELSE format_size_loop(Number(size), unit_names(format_type), multiplier(format_type),
                          PyInt(size))

----------------------------------------------------------------------------
(* class AccessModeFormat, format_mode *)

AccessModeFormat_OCTAL == 0

AccessModeFormat_TEXTUAL == 1

\* a & b of Python integers, b >= 0 (a negative a is in two's complement)
RECURSIVE BitAnd(_, _)
BitAnd(a, b) == IF b = 0 THEN 0 ELSE (a % 2) * (b % 2) + 2 * BitAnd(a \div 2, b \div 2)

\* oct(mode)
Oct(mode) ==
    IF mode < 0 THEN <<"-", "0", "o">> \o ToBase(-mode, 8) ELSE <<"0", "o">> \o ToBase(mode, 8)

\* the loop with the shift made before the test
RECURSIVE format_mode_loop_shift_first(_, _, _, _)
format_mode_loop_shift_first(mode, letters, mask, result) ==
    IF letters = <<>> THEN result
    ELSE format_mode_loop_shift_first(mode, Tail(letters), mask \div 2,
             result \o (IF BitAnd(mode, mask \div 2) # 0 THEN <<Head(letters)>> ELSE <<"-">>))

RECURSIVE format_mode_loop(_, _, _, _)
format_mode_loop(mode, letters, mask, result) ==
    IF letters = <<>> THEN result
    ELSE format_mode_loop(mode, Tail(letters), mask \div 2,
             result \o (IF BitAnd(mode, mask) # 0 THEN <<Head(letters)>> ELSE <<"-">>))

format_mode(mode, format) ==
    IF format = AccessModeFormat_TEXTUAL
    THEN PyStr(format_mode_loop(mode, <<"r", "w", "x", "r", "w", "x", "r", "w", "x">>,
                                256, <<>>))
    ELSE IF format = AccessModeFormat_OCTAL THEN PyStr(Oct(mode))
    ELSE PyStr(<<>>)

----------------------------------------------------------------------------
(* The formatting helpers: the inputs are drawn by the initial state and    *)
(* one step makes the call.                                                 *)

MaxLimbs == 6

MaxMode == 2047

\* digits tried in every position of a size
Coarse(m) == {0, 1, m \div 2, m - 1}

\* digits tried against every value of the neighbouring digit
Fine(m) == {0, 1, 25, 50, m \div 4, m \div 2, 3 * (m \div 4), m - 1}

Widen(limbs, n) == [j \in 1..n |-> IF j <= Len(limbs) THEN limbs[j] ELSE 0]

\* the sizes tried: below m^2 every value of one digit against the fine values
\* of the other, and up to m^n - 1 the coarse values in every position
Sizes(m, n) ==
    {Widen(<<d0, d1>>, n) : d0 \in 0..(m - 1), d1 \in Fine(m)}
    \cup {Widen(<<d0, d1>>, n) : d0 \in Fine(m), d1 \in 0..(m - 1)}
    \cup [1..n -> Coarse(m)]

FormatSizeArgs(n) ==
    [size : Sizes(1000, n), format_type : {SizeFormat_SI}, include_unit : BOOLEAN,
     thousands_sep : {<<>>}]
    \cup [size : Sizes(1024, n), format_type : {SizeFormat_IEC}, include_unit : BOOLEAN,
          thousands_sep : {<<>>}]
    \cup [size : [1..n -> Coarse(1000)], format_type : {SizeFormat_LOCAL},
          include_unit : BOOLEAN, thousands_sep : {<<>>, <<",">>}]

FormatModeArgs ==
    [mode : (-MaxMode)..MaxMode,
     format : {AccessModeFormat_OCTAL, AccessModeFormat_TEXTUAL}]

Idle ==
    /\ environ = <<>>
    /\ fs = <<>>
    /\ MONOSPACE_FONT_STRING = None
    /\ desktop = <<>>
    /\ queries = 0
    /\ first_call = NoFirst
    /\ child_env = <<>>

InitFormat ==
    /\ call \in [op : {"format_size"}, args : FormatSizeArgs(MaxLimbs), result : {Pending}]
                \cup [op : {"format_mode"}, args : FormatModeArgs, result : {Pending}]
    /\ Idle

FormatSize ==
    /\ call.op = "format_size" /\ call.result = Pending
    /\ \E r \in format_size(call.args.size, call.args.format_type, call.args.include_unit,
                            call.args.thousands_sep) :
           call' = [call EXCEPT !.result = r]
    /\ UNCHANGED <<environ, fs, MONOSPACE_FONT_STRING, desktop, queries, first_call, child_env>>

FormatMode ==
    /\ call.op = "format_mode" /\ call.result = Pending
    /\ call' = [call EXCEPT !.result = format_mode(call.args.mode, call.args.format)]
    /\ UNCHANGED <<environ, fs, MONOSPACE_FONT_STRING, desktop, queries, first_call, child_env>>

NextFormat == FormatSize \/ FormatMode

SpecFormat == InitFormat /\ [][NextFormat]_vars

----------------------------------------------------------------------------
(* Properties of format_size and format_mode *)

Returned(op) == call.op = op /\ call.result.kind # "pending"

EndsWith(s, suffix) ==
    Len(s) >= Len(suffix) /\ SubSeq(s, Len(s) - Len(suffix) + 1, Len(s)) = suffix

\* the size is below m^k
BelowPower(size, k) == \A j \in (k + 1)..Len(size) : size[j] = 0

\* size / 1024 to one decimal, for a size below 1024 * 1024
OneDecimalKiB(size) ==
    LET n == size[1] + 1024 * size[2]
        q == (10 * n) \div 1024
        r == (10 * n) % 1024
        t == IF r > 512 \/ (r = 512 /\ q % 2 = 1) THEN q + 1 ELSE q
    IN  DecStr(t \div 10) \o <<".">> \o <<Digit(t % 10)>>

IECCall == Returned("format_size") /\ call.args.format_type = SizeFormat_IEC

\* C1, as stated: for the IEC format a size below 1024 is rendered as the whole
\* number of bytes followed by " B" and nothing else (so 0 gives "0 B"), and a
\* size in [1024, 1024*1024) as size/1024 with one decimal followed by " KiB"
\* (so 1024 gives "1.0 KiB").
C1_AsStated ==
    IECCall /\ call.args.include_unit =>
        /\ BelowPower(call.args.size, 1) =>
               /\ call.result.type = "str"
               /\ call.result.val = DecStr(call.args.size[1]) \o <<" ", "B">>
        /\ BelowPower(call.args.size, 2) /\ ~BelowPower(call.args.size, 1) =>
               /\ call.result.type = "str"
               /\ call.result.val = OneDecimalKiB(call.args.size) \o <<" ", "K", "i", "B">>

\* C1, amended: for the IEC format a size below 1024 is rendered as the whole
\* number of bytes, right-aligned in a field of three characters (padded on the
\* left with spaces when it has fewer than three digits), followed by " B", so
\* that 0 gives "  0 B"; a size in [1024, 1024*1024) is rendered as size/1024
\* with one decimal followed by " KiB", so that 1024 gives "1.0 KiB".
C1_PaddedBytes ==
    IECCall =>
        /\ BelowPower(call.args.size, 1) =>
               /\ call.result.type = "str"
               /\ call.result.val =
                      PadLeft(DecStr(call.args.size[1]), 3) \o <<" ", "B">>
               /\ call.args.size[1] = 0 => call.result.val = <<" ", " ", "0", " ", "B">>
        /\ BelowPower(call.args.size, 2) /\ ~BelowPower(call.args.size, 1) =>
               /\ call.result.type = "str"
               /\ call.result.val = OneDecimalKiB(call.args.size) \o <<" ", "K", "i", "B">>
               /\ call.args.size[1] = 0 /\ call.args.size[2] = 1 =>
                      call.result.val = <<"1", ".", "0", " ", "K", "i", "B">>

\* format_size(0, IEC) has returned "  0 B"
C1_Witness ==
    /\ IECCall
    /\ \A j \in 1..Len(call.args.size) : call.args.size[j] = 0
    /\ call.result.type = "str"
    /\ call.result.val = <<" ", " ", "0", " ", "B">>

RECURSIVE Pow2(_)
Pow2(k) == IF k = 0 THEN 1 ELSE 2 * Pow2(k - 1)

BitSet(mode, k) == (mode \div Pow2(k)) % 2 = 1

TextualCall == Returned("format_mode") /\ call.args.format = AccessModeFormat_TEXTUAL

\* C2: format_mode(mode, TEXTUAL) is a string of exactly 9 characters whose i-th
\* character (i = 0..8) is the i-th character of "rwxrwxrwx" when bit 8 - i of
\* mode is set and "-" otherwise; 0o755 gives "rwxr-xr-x"; bits above the low 9
\* do not change the result.
C2_TextualMode ==
    TextualCall =>
        /\ call.result.type = "str"
        /\ Len(call.result.val) = 9
        /\ \A i \in 0..8 :
               call.result.val[i + 1] =
                   IF BitSet(call.args.mode % 512, 8 - i)
                   THEN <<"r", "w", "x", "r", "w", "x", "r", "w", "x">>[i + 1]
                   ELSE "-"
        /\ \A i \in 0..8 :
               (call.result.val[i + 1] # "-") = BitSet(call.args.mode, 8 - i)
        /\ call.args.mode = 493 =>
               call.result.val = <<"r", "w", "x", "r", "-", "x", "r", "-", "x">>

\* format_mode(0o755 + 0o1000, TEXTUAL) has returned "rwxr-xr-x"
C2_Witness ==
    /\ TextualCall
    /\ call.args.mode = 493 + 512
    /\ call.result.val = <<"r", "w", "x", "r", "-", "x", "r", "-", "x">>

\* the first unit k for which size / multiplier^k is below the multiplier
FirstUnit(size) == CHOOSE k \in 1..(Len(size) + 1) :
                       BelowPower(size, k) /\ (k > 1 => ~BelowPower(size, k - 1))

\* C9: for every non-negative size and both standard formats format_size returns
\* a string that ends with one of the format's five unit names, the first unit k
\* for which size / multiplier^k is below the multiplier, and for a size of
\* multiplier^5 and above still a string with a unit.
C9_AlwaysAUnit ==
    Returned("format_size") /\ call.args.include_unit /\ call.args.format_type \in {SizeFormat_SI, SizeFormat_IEC} =>
        LET names == unit_names(call.args.format_type)
            k == FirstUnit(call.args.size)
        IN  /\ call.result.type = "str"
            /\ IF k <= Len(names)
               THEN EndsWith(call.result.val, <<" ">> \o names[k])
               ELSE \E j \in 1..Len(names) : EndsWith(call.result.val, <<" ">> \o names[j])

----------------------------------------------------------------------------
(* encode_file_name, decode_file_name.  A str is a sequence of code points,  *)
(* a bytes a sequence of integers 0..255.                                    *)

IsSurrogate(cp) == cp >= 55296 /\ cp <= 57343

\* the lone surrogates U+DC80..U+DCFF that 'surrogateescape' turns back into bytes
IsEscape(cp) == cp >= 56448 /\ cp <= 56575

\* one code point under str.encode('utf-8', 'surrogateescape'); <<>> stands for
\* UnicodeEncodeError (no code point encodes to no bytes)
EncodeCodePoint(cp) ==
    IF cp < 128 THEN <<cp>>
    ELSE IF cp < 2048 THEN <<192 + (cp \div 64), 128 + (cp % 64)>>
    ELSE IF IsEscape(cp) THEN <<cp - 56320>>
    ELSE IF IsSurrogate(cp) THEN <<>>
    ELSE IF cp < 65536
    THEN <<224 + (cp \div 4096), 128 + ((cp \div 64) % 64), 128 + (cp % 64)>>
    ELSE <<240 + (cp \div 262144), 128 + ((cp \div 4096) % 64), 128 + ((cp \div 64) % 64),
           128 + (cp % 64)>>

RECURSIVE Utf8Encode(_)
Utf8Encode(s) ==
    IF s = <<>> THEN PyBytes(<<>>)
    ELSE LET head == EncodeCodePoint(Head(s))
             rest == Utf8Encode(Tail(s))
         IN  IF head = <<>> THEN Raise("UnicodeEncodeError")
             ELSE IF rest.kind = "raise" THEN rest
             ELSE PyBytes(head \o rest.val)

\* encode_file_name(file_name), file_name a str (str(file_name) is file_name)
encode_file_name(file_name) == Utf8Encode(file_name.val)

IsContinuation(b) == b >= 128 /\ b <= 191

\* the range of the second byte after the lead byte b of a 3- or 4-byte sequence
SecondLow(b) == IF b = 224 THEN 160 ELSE IF b = 240 THEN 144 ELSE 128

SecondHigh(b) == IF b = 237 THEN 159 ELSE IF b = 244 THEN 143 ELSE 191

IsSecond(b, b2) == b2 >= SecondLow(b) /\ b2 <= SecondHigh(b)

Drop(s, n) == SubSeq(s, n + 1, Len(s))

\* bytes.decode('latin-1'): every byte is a code point
RECURSIVE Latin1Decode(_)
Latin1Decode(b) == IF b = <<>> THEN <<>> ELSE <<Head(b)>> \o Latin1Decode(Tail(b))

\* bytes.decode('utf-8', 'replace'): every maximal ill-formed part becomes U+FFFD
RECURSIVE Utf8DecodeReplace(_)
Utf8DecodeReplace(b) ==
    IF b = <<>> THEN <<>>
    ELSE LET b1 == b[1]
             n == Len(b)
         IN  IF b1 < 128 THEN <<b1>> \o Utf8DecodeReplace(Drop(b, 1))
             ELSE IF b1 >= 194 /\ b1 <= 223
             THEN IF n >= 2 /\ IsContinuation(b[2])
                  THEN <<(b1 - 192) * 64 + (b[2] - 128)>> \o Utf8DecodeReplace(Drop(b, 2))
                  ELSE <<65533>> \o Utf8DecodeReplace(Drop(b, 1))
             ELSE IF b1 >= 224 /\ b1 <= 239
             THEN IF n >= 2 /\ IsSecond(b1, b[2])
                  THEN IF n >= 3 /\ IsContinuation(b[3])
                       THEN <<(b1 - 224) * 4096 + (b[2] - 128) * 64 + (b[3] - 128)>>
                                \o Utf8DecodeReplace(Drop(b, 3))
                       ELSE <<65533>> \o Utf8DecodeReplace(Drop(b, 2))
                  ELSE <<65533>> \o Utf8DecodeReplace(Drop(b, 1))
             ELSE IF b1 >= 240 /\ b1 <= 244
             THEN IF n >= 2 /\ IsSecond(b1, b[2])
                  THEN IF n >= 3 /\ IsContinuation(b[3])
                       THEN IF n >= 4 /\ IsContinuation(b[4])
                            THEN <<(b1 - 240) * 262144 + (b[2] - 128) * 4096
                                       + (b[3] - 128) * 64 + (b[4] - 128)>>
                                     \o Utf8DecodeReplace(Drop(b, 4))
                            ELSE <<65533>> \o Utf8DecodeReplace(Drop(b, 3))
                       ELSE <<65533>> \o Utf8DecodeReplace(Drop(b, 2))
                  ELSE <<65533>> \o Utf8DecodeReplace(Drop(b, 1))
             ELSE <<65533>> \o Utf8DecodeReplace(Drop(b, 1))

\* decode_file_name(file_name); depth counts the recursive calls made
RECURSIVE decode_file_name(_, _)
decode_file_name(file_name, depth) ==
    IF file_name.type = "bytes"
    THEN [result |-> PyStr(Utf8DecodeReplace(file_name.val)), depth |-> depth]
    ELSE LET encoded == encode_file_name(file_name)
         IN  IF encoded.kind = "raise" THEN [result |-> encoded, depth |-> depth]
             ELSE decode_file_name(encoded, depth + 1)

----------------------------------------------------------------------------
(* The file name codecs: the initial state draws a file name, one step makes *)
(* the call, and a str that decode_file_name returned may be passed to it    *)
(* again.                                                                    *)

MaxNameLen == 3

\* A, e-acute, the euro sign, U+FFFD, U+10348, the escapes of 0xA9 and 0xC3,
\* and U+D800, a surrogate that is no escape
NameCodePoints == {65, 233, 8364, 65533, 66376, 56489, 56515, 55296}

\* A, the bytes of e-acute and of the euro sign, and 0xFF
NameBytes == {65, 195, 169, 226, 130, 172, 255}

BoundedSeq(S, n) == UNION {[1..k -> S] : k \in 0..n}

NameStrs == {PyStr(s) : s \in BoundedSeq(NameCodePoints, MaxNameLen)}

NameByteStrs == {PyBytes(b) : b \in BoundedSeq(NameBytes, MaxNameLen)}

InitNames ==
    /\ call \in [op : {"decode_file_name"}, args : [file_name : NameStrs \cup NameByteStrs],
                 result : {Pending}, depth : {0}, prev : {Pending}]
                \cup [op : {"encode_file_name"}, args : [file_name : NameStrs],
                      result : {Pending}, depth : {0}, prev : {Pending}]
    /\ Idle

DecodeFileName ==
    /\ call.op = "decode_file_name" /\ call.result = Pending
    /\ LET r == decode_file_name(call.args.file_name, 0)
       IN  call' = [op |-> "decode_file_name",
                    args |-> [file_name |-> call.args.file_name, first |-> call.args.file_name],
                    result |-> r.result, depth |-> r.depth, prev |-> Pending]
    /\ UNCHANGED <<environ, fs, MONOSPACE_FONT_STRING, desktop, queries, first_call, child_env>>

\* decode_file_name(decode_file_name(...)): the str returned is decoded again
DecodeFileNameAgain ==
    /\ call.op = "decode_file_name" /\ call.result.kind = "return"
    /\ LET r == decode_file_name(call.result, 0)
       IN  call' = [op |-> "decode_file_name",
                    args |-> [file_name |-> call.result, first |-> call.args.first],
                    result |-> r.result, depth |-> r.depth, prev |-> call.result]
    /\ UNCHANGED <<environ, fs, MONOSPACE_FONT_STRING, desktop, queries, first_call, child_env>>

EncodeFileName ==
    /\ call.op = "encode_file_name" /\ call.result = Pending
    /\ call' = [call EXCEPT !.result = encode_file_name(call.args.file_name)]
    /\ UNCHANGED <<environ, fs, MONOSPACE_FONT_STRING, desktop, queries, first_call, child_env>>

NextNames == DecodeFileName \/ DecodeFileNameAgain \/ EncodeFileName

SpecNames == InitNames /\ [][NextNames]_vars

NoSurrogates(s) == \A i \in 1..Len(s) : ~IsSurrogate(s[i])

\* C3: for every str s without surrogate code points, decode_file_name applied to
\* encode_file_name(s) twice gives the same as applying it once, and
\* decode_file_name called on a str makes exactly one recursive call, on the
\* encoded bytes.
C3_Idempotent ==
    /\ Returned("decode_file_name")
    /\ call.args.first.type = "str"
    /\ NoSurrogates(call.args.first.val)
    => /\ call.result.kind = "return"
       /\ call.result.type = "str"
       /\ call.depth = 1
       /\ call.prev.kind = "return" => call.result.val = call.prev.val

\* the result for "A" e-acute euro has been decoded a second time
C3_Witness ==
    /\ Returned("decode_file_name")
    /\ call.args.first.type = "str"
    /\ call.args.first.val = <<65, 233, 8364>>
    /\ call.prev.kind = "return"
    /\ call.result.val = <<65, 233, 8364>>

----------------------------------------------------------------------------
(* Paths.  A path is a sequence of tokens: "/" and "~" are tokens of their   *)
(* own, a file or directory name is one token.                               *)

Unset == [set |-> FALSE, val |-> <<>>]

Set(v) == [set |-> TRUE, val |-> v]

EnvNames == {"PATH", "XDG_CACHE_HOME", "XDG_CONFIG_HOME", "XDG_DATA_HOME",
             "LD_TRACE_LOADED_OBJECTS"}

\* the home directory of the user and the working directory of the process
Home == <<"/", "home">>

Cwd == <<"/", "cwd">>

\* os.path.expanduser(path)
expanduser(path) == IF path # <<>> /\ Head(path) = "~" THEN Home \o Tail(path) ELSE path

\* a call os.path.expanduser(*args): the function takes exactly one argument
expanduser_call(args) ==
    IF Len(args) # 1 THEN Raise("TypeError") ELSE PyStr(expanduser(args[1]))

\* os.path.normpath of an absolute path: runs of "/" collapse and no "/" is
\* left at the end (the paths here hold no "." and no "..", and none starts "//")
RECURSIVE normpath(_)
normpath(path) ==
    IF Len(path) <= 1 THEN path
    ELSE IF path[Len(path)] = "/" THEN normpath(SubSeq(path, 1, Len(path) - 1))
    ELSE IF path[1] = "/" /\ path[2] = "/" THEN normpath(Tail(path))
    ELSE <<Head(path)>> \o normpath(Tail(path))

\* os.path.abspath(path)
abspath(path) ==
    IF path # <<>> /\ Head(path) = "/" THEN normpath(path)
    ELSE normpath(Cwd \o <<"/">> \o path)

\* os.path.join(a, b)
join(a, b) ==
    IF b # <<>> /\ Head(b) = "/" THEN b
    ELSE IF a = <<>> \/ a[Len(a)] = "/" THEN a \o b
    ELSE a \o <<"/">> \o b

\* os.path.isdir(path)
isdir(path) == abspath(path) \in fs.dirs

\* the directory a path names an entry of, and the name of the entry
Parent(path) ==
    LET slashes == {i \in 1..Len(path) : path[i] = "/"}
        last == CHOOSE i \in slashes : \A j \in slashes : j <= i
    IN  IF last = 1 THEN <<"/">> ELSE SubSeq(path, 1, last - 1)

\* os.path.exists(path)
exists(path) ==
    LET full == abspath(path)
    IN  \/ full \in fs.dirs
        \/ Len(full) > 1 /\ <<Parent(full), full[Len(full)]>> \in fs.entries

\* os.path.isfile(path)
isfile(path) == abspath(path) \in DOMAIN fs.files

\* str.split(sep): the parts between the separators, at least one
RECURSIVE split(_, _)
split(s, sep) ==
    IF \A i \in 1..Len(s) : s[i] # sep THEN <<s>>
    ELSE LET at == CHOOSE i \in 1..Len(s) : s[i] = sep /\ \A j \in 1..(i - 1) : s[j] # sep
         IN  <<SubSeq(s, 1, at - 1)>> \o split(SubSeq(s, at + 1, Len(s)), sep)

get_cache_directory ==
    IF environ["XDG_CACHE_HOME"].set
    THEN PyStr(abspath(environ["XDG_CACHE_HOME"].val))
    ELSE PyStr(expanduser(<<"~", "/", ".cache">>))

get_config_directory ==
    IF environ["XDG_CONFIG_HOME"].set
    THEN PyStr(abspath(environ["XDG_CONFIG_HOME"].val))
    ELSE PyStr(expanduser(<<"~", "/", ".config">>))

\* result is assigned and never returned: the end of the function returns None
get_config_path ==
    LET config_directory == get_config_directory.val
        result == expanduser(<<"~", "/", ".sunflower">>)
    IN  IF isdir(config_directory)
        THEN PyStr(join(config_directory, <<"sunflower">>))
        ELSE None

get_data_directory ==
    LET result == expanduser_call(<<<<"~", "/", ".local">>, <<"share">>>>)
    IN  IF result.kind = "raise" THEN result
        ELSE IF environ["XDG_DATA_HOME"].set
        THEN PyStr(abspath(environ["XDG_DATA_HOME"].val))
        ELSE result

\* only the first directory of the search path is looked at
executable_exists_first_only(command) ==
    LET default_paths == <<"/", "bin", ":", "/", "usr", "/", "bin", ":",
                           "/", "usr", "/", "local", "/", "bin">>
        search_paths == split(IF environ["PATH"].set THEN environ["PATH"].val
                              ELSE default_paths, ":")
    IN  PyBool(exists(join(search_paths[1], command)))

executable_exists(command) ==
    LET default_paths == <<"/", "bin", ":", "/", "usr", "/", "bin", ":",
                           "/", "usr", "/", "local", "/", "bin">>
        search_paths == split(IF environ["PATH"].set THEN environ["PATH"].val
                              ELSE default_paths, ":")
        found_commands == {i \in 1..Len(search_paths) :
                               exists(join(search_paths[i], command))}
    IN  PyBool(Cardinality(found_commands) > 0)

----------------------------------------------------------------------------
(* The path helpers: the initial state draws the environment, the file       *)
(* system and a call, and one step makes the call.                           *)

MaxPathLen == 3

Env(name, value) == [n \in EnvNames |-> IF n = name THEN value ELSE Unset]

\* values of an XDG_*_HOME variable: not set, empty, absolute with and without a
\* "/" at its end, relative, and a directory that does not exist
XdgValues ==
    {Unset, Set(<<>>), Set(<<"/", "xdg">>), Set(<<"/", "xdg", "/">>), Set(<<"rel">>),
     Set(<<"/", "nodir">>)}

XdgDirs == {Home \o <<"/", ".config">>, <<"/", "xdg">>, Cwd \o <<"/", "rel">>, Cwd}

PathValues ==
    {Unset}
    \cup {Set(v) : v \in BoundedSeq({"a", "b", ":"}, MaxPathLen)}
    \cup {Set(<<"/", "bin">>), Set(<<"/", "usr", "/", "bin", ":", "a">>), Set(<<"a", "/">>),
          Set(<<":", "/", "bin">>)}

CommandDirs ==
    {<<"/", "bin">>, <<"/", "usr", "/", "bin">>, <<"/", "usr", "/", "local", "/", "bin">>,
     Cwd, Cwd \o <<"/", "a">>, Cwd \o <<"/", "b">>}

CommandEntries == {<<d, "ls">> : d \in CommandDirs} \cup {<<Cwd \o <<"/", "a">>, "vi">>}

Commands == {<<"ls">>, <<"vi">>}

NoFiles == [dirs |-> {}, entries |-> {}, files |-> <<>>, programs |-> <<>>]

InitPaths ==
    /\ \/ /\ call \in [op : {"executable_exists"}, args : [command : Commands],
                       result : {Pending}]
          /\ environ \in {Env("PATH", v) : v \in PathValues}
          /\ fs \in {[NoFiles EXCEPT !.entries = e] : e \in SUBSET CommandEntries}
       \/ /\ call \in [op : {"get_config_path", "get_config_directory"}, args : {<<>>},
                       result : {Pending}]
          /\ environ \in {Env("XDG_CONFIG_HOME", v) : v \in XdgValues}
          /\ fs \in {[NoFiles EXCEPT !.dirs = d] : d \in SUBSET XdgDirs}
       \/ /\ call = [op |-> "get_cache_directory", args |-> <<>>, result |-> Pending]
          /\ environ \in {Env("XDG_CACHE_HOME", v) : v \in XdgValues}
          /\ fs \in {[NoFiles EXCEPT !.dirs = d] : d \in SUBSET XdgDirs}
       \/ /\ call = [op |-> "get_data_directory", args |-> <<>>, result |-> Pending]
          /\ environ \in {Env("XDG_DATA_HOME", v) : v \in XdgValues}
          /\ fs \in {[NoFiles EXCEPT !.dirs = d] : d \in SUBSET XdgDirs}
    /\ MONOSPACE_FONT_STRING = None
    /\ desktop = <<>>
    /\ queries = 0
    /\ first_call = NoFirst
    /\ child_env = <<>>

Rest == <<environ, fs, MONOSPACE_FONT_STRING, desktop, queries, first_call, child_env>>

Entered(op) == call.op = op /\ call.result = Pending

ExecutableExists ==
    /\ Entered("executable_exists")
    /\ call' = [call EXCEPT !.result = executable_exists(call.args.command)]
    /\ UNCHANGED Rest

GetCacheDirectory ==
    /\ Entered("get_cache_directory")
    /\ call' = [call EXCEPT !.result = get_cache_directory]
    /\ UNCHANGED Rest

GetConfigDirectory ==
    /\ Entered("get_config_directory")
    /\ call' = [call EXCEPT !.result = get_config_directory]
    /\ UNCHANGED Rest

GetConfigPath ==
    /\ Entered("get_config_path")
    /\ call' = [call EXCEPT !.result = get_config_path]
    /\ UNCHANGED Rest

GetDataDirectory ==
    /\ Entered("get_data_directory")
    /\ call' = [call EXCEPT !.result = get_data_directory]
    /\ UNCHANGED Rest

NextPaths ==
    \/ ExecutableExists
    \/ GetCacheDirectory
    \/ GetConfigDirectory
    \/ GetConfigPath
    \/ GetDataDirectory

SpecPaths == InitPaths /\ [][NextPaths]_vars

----------------------------------------------------------------------------
(* Properties of the path helpers *)

\* the parts of a PATH value between its separators
Segments(s) ==
    {SubSeq(s, i + 1, j - 1) : <<i, j>> \in
        {<<i, j>> \in (0..Len(s)) \X (1..(Len(s) + 1)) :
            /\ i < j
            /\ i = 0 \/ s[i] = ":"
            /\ j = Len(s) + 1 \/ s[j] = ":"
            /\ \A k \in (i + 1)..(j - 1) : s[k] # ":"}}

\* the search path of the claim
SearchPath ==
    IF environ["PATH"].set THEN Segments(environ["PATH"].val)
    ELSE {<<"/", "bin">>, <<"/", "usr", "/", "bin">>, <<"/", "usr", "/", "local", "/", "bin">>}

\* directory d holds an entry named by the command (an empty d is the working
\* directory)
Contains(d, command) == <<abspath(d), command[1]>> \in fs.entries

\* C4: executable_exists(command) returns true exactly when at least one directory
\* of the search path contains an entry named command; the search path is PATH
\* split on the path separator when PATH is set, and /bin, /usr/bin,
\* /usr/local/bin only when PATH is not set at all.
C4_ExistsOnPath ==
    Returned("executable_exists") =>
        /\ call.result.type = "bool"
        /\ call.result.val = (\E d \in SearchPath : Contains(d, call.args.command))

\* with PATH set to "b:a", ls was found in the second directory only
C4_Witness ==
    /\ Returned("executable_exists")
    /\ environ["PATH"] = Set(<<"b", ":", "a">>)
    /\ call.args.command = <<"ls">>
    /\ ~Contains(<<"b">>, <<"ls">>)
    /\ call.result.val = TRUE

\* the user configuration directory of the claims
ConfigDirectory ==
    IF environ["XDG_CONFIG_HOME"].set THEN abspath(environ["XDG_CONFIG_HOME"].val)
    ELSE Home \o <<"/", ".config">>

\* C5: when the user configuration directory does not exist as a directory,
\* get_config_path returns the default path ~/.sunflower (expanded), when it does
\* exist it returns <config directory>/sunflower, and it never returns no value.
C5_ConfigPathDefault ==
    Returned("get_config_path") =>
        /\ call.result.kind = "return"
        /\ call.result.type = "str"
        /\ call.result.val = IF ConfigDirectory \in fs.dirs
                             THEN ConfigDirectory \o <<"/", "sunflower">>
                             ELSE Home \o <<"/", ".sunflower">>

\* C6: get_data_directory returns, without raising, the absolute form of
\* XDG_DATA_HOME when that variable is set and ~/.local/share when it is not, in
\* the way get_cache_directory does for XDG_CACHE_HOME and ~/.cache and
\* get_config_directory for XDG_CONFIG_HOME and ~/.config.
C6_DataDirectory ==
    /\ Returned("get_data_directory") =>
           /\ call.result.kind = "return"
           /\ call.result.type = "str"
           /\ call.result.val = IF environ["XDG_DATA_HOME"].set
                                THEN abspath(environ["XDG_DATA_HOME"].val)
                                ELSE Home \o <<"/", ".local", "/", "share">>
    /\ Returned("get_cache_directory") =>
           /\ call.result.kind = "return"
           /\ call.result.val = IF environ["XDG_CACHE_HOME"].set
                                THEN abspath(environ["XDG_CACHE_HOME"].val)
                                ELSE Home \o <<"/", ".cache">>
    /\ Returned("get_config_directory") =>
           /\ call.result.kind = "return"
           /\ call.result.val = ConfigDirectory

----------------------------------------------------------------------------
(* get_user_directory.  A line of user-dirs.dirs is a sequence of tokens: a  *)
(* key, "=", a double quote and "$HOME" are tokens of their own.             *)

\* str.replace('$HOME', home)
RECURSIVE replace_home(_, _)
replace_home(s, home) ==
    IF s = <<>> THEN <<>>
    ELSE (IF Head(s) = "$HOME" THEN home ELSE <<Head(s)>>) \o replace_home(Tail(s), home)

\* str.strip('"')
RECURSIVE strip_quotes(_)
strip_quotes(s) ==
    IF s # <<>> /\ Head(s) = "\"" THEN strip_quotes(Tail(s))
    ELSE IF s # <<>> /\ s[Len(s)] = "\"" THEN strip_quotes(SubSeq(s, 1, Len(s) - 1))
    ELSE s

\* the loop over the lines of the file, from the first line left
RECURSIVE get_user_directory_loop(_, _)
get_user_directory_loop(lines, directory) ==
    IF lines = <<>> THEN None
    ELSE LET data == split(Head(lines), "=")
         IN  IF data[1] = <<directory>>
             THEN IF Len(data) < 2 THEN Raise("IndexError")
                  ELSE PyStr(strip_quotes(replace_home(data[2], expanduser(<<"~">>))))
             ELSE get_user_directory_loop(Tail(lines), directory)

get_user_directory(directory) ==
    LET config_file == join(get_config_directory.val, <<"user-dirs.dirs">>)
    IN  IF isfile(config_file)
        THEN get_user_directory_loop(fs.files[abspath(config_file)], directory)
        ELSE None

MaxLineLen == 3

MaxLines == 2

UserDirectory == {"XDG_DESKTOP_DIR", "XDG_MUSIC_DIR"}

LineTokens == {"XDG_DESKTOP_DIR", "=", "\"", "$HOME", "/Desktop"}

Lines(n) ==
    BoundedSeq(LineTokens, n)
    \cup {<<"XDG_DESKTOP_DIR", "=", "\"", "$HOME", "/Desktop", "\"">>,
          <<"XDG_MUSIC_DIR", "=", "\"", "$HOME", "/Music", "\"">>}

UserDirsFiles(n) ==
    {<<>>}
    \cup {[p \in {Home \o <<"/", ".config", "/", "user-dirs.dirs">>} |-> c] :
              c \in BoundedSeq(Lines(MaxLineLen), n)}
    \cup {[p \in {<<"/", "xdg", "/", "user-dirs.dirs">>} |-> c] :
              c \in BoundedSeq(Lines(MaxLineLen), n)}

InitUserDirs ==
    /\ call \in [op : {"get_user_directory"}, args : [directory : UserDirectory],
                 result : {Pending}]
    /\ environ \in {Env("XDG_CONFIG_HOME", v) : v \in {Unset, Set(<<"/", "xdg">>)}}
    /\ fs \in {[NoFiles EXCEPT !.files = f] : f \in UserDirsFiles(MaxLines)}
    /\ MONOSPACE_FONT_STRING = None
    /\ desktop = <<>>
    /\ queries = 0
    /\ first_call = NoFirst
    /\ child_env = <<>>

GetUserDirectory ==
    /\ Entered("get_user_directory")
    /\ call' = [call EXCEPT !.result = get_user_directory(call.args.directory)]
    /\ UNCHANGED Rest

NextUserDirs == GetUserDirectory

SpecUserDirs == InitUserDirs /\ [][NextUserDirs]_vars

\* the lines of the user-dirs.dirs file of the configuration directory, none when
\* the file is missing
UserDirsLines ==
    LET file == ConfigDirectory \o <<"/", "user-dirs.dirs">>
    IN  IF file \in DOMAIN fs.files THEN fs.files[file] ELSE <<>>

HasEquals(line) == \E i \in 1..Len(line) : line[i] = "="

FirstEquals(line) == CHOOSE i \in 1..Len(line) : line[i] = "=" /\ \A j \in 1..(i - 1) : line[j] # "="

\* the line assigns the key: its text before the first "=" is the key
Assigns(line, key) == HasEquals(line) /\ SubSeq(line, 1, FirstEquals(line) - 1) = <<key>>

\* the value of an assignment: all that follows the first "="
ValueOf(line) == SubSeq(line, FirstEquals(line) + 1, Len(line))

\* C10: for every content of user-dirs.dirs and every key get_user_directory
\* returns without raising: None when the file is missing or no line's text
\* before the first "=" equals the key, and otherwise the value of the first such
\* line with $HOME replaced by the home directory and the surrounding double
\* quotes removed; also for a line that is the key alone and for a value that
\* itself holds "=".
C10_UserDirectory ==
    Returned("get_user_directory") =>
        LET key == call.args.directory
            lines == UserDirsLines
            hits == {i \in 1..Len(lines) : Assigns(lines[i], key)}
            bare == {i \in 1..Len(lines) : lines[i] = <<key>>}
        IN  /\ call.result.kind = "return"
            /\ bare = {} =>
                   IF hits = {} THEN call.result = None
                   ELSE LET first == CHOOSE i \in hits : \A j \in hits : i <= j
                        IN  /\ call.result.type = "str"
                            /\ call.result.val =
                                   strip_quotes(replace_home(ValueOf(lines[first]), Home))

----------------------------------------------------------------------------
(* get_monospace_font_string and the global MONOSPACE_FONT_STRING.  The      *)
(* desktop settings are [schema : is org.gnome.desktop.interface installed,  *)
(* font : the value of its 'monospace-font-name' key].                       *)

\* the function without the test of the global: every call asks the settings
get_monospace_font_string_uncached(global, settings) ==
    LET value == IF ~settings.schema THEN PyStr(<<"monospace">>) ELSE PyStr(settings.font)
    IN  [global |-> value, result |-> value, queried |-> TRUE]

\* global is MONOSPACE_FONT_STRING at the call; the new value of the global, the
\* value returned and whether the settings schema was looked up
get_monospace_font_string(global, settings) ==
    IF global = None
    THEN LET value == IF ~settings.schema THEN PyStr(<<"monospace">>)
                      ELSE PyStr(settings.font)
         IN  [global |-> value, result |-> value, queried |-> TRUE]
    ELSE [global |-> global, result |-> global, queried |-> FALSE]

MaxCalls == 3

FontNames == {<<"Monospace 10">>, <<"Ubuntu Mono 13">>, <<"monospace">>, <<>>}

DesktopSettings == [schema : BOOLEAN, font : FontNames]

InitFont ==
    /\ call = [op |-> "none", args |-> <<>>, result |-> None, n |-> 0]
    /\ MONOSPACE_FONT_STRING = None
    /\ desktop \in DesktopSettings
    /\ queries = 0
    /\ first_call = NoFirst
    /\ environ = <<>>
    /\ fs = <<>>
    /\ child_env = <<>>

GetMonospaceFontString ==
    /\ call.n < MaxCalls
    /\ LET r == get_monospace_font_string(MONOSPACE_FONT_STRING, desktop)
       IN  /\ MONOSPACE_FONT_STRING' = r.global
           /\ queries' = IF r.queried THEN queries + 1 ELSE queries
           /\ call' = [op |-> "get_monospace_font_string", args |-> <<>>,
                       result |-> r.result, n |-> call.n + 1]
           /\ first_call' = IF call.n = 0
                            THEN [made |-> TRUE, result |-> r.result, desktop |-> desktop]
                            ELSE first_call
    /\ UNCHANGED <<desktop, environ, fs, child_env>>

\* the user, or another program, changes the desktop settings
ChangeDesktopSettings ==
    /\ \E d \in DesktopSettings : d # desktop /\ desktop' = d
    /\ UNCHANGED <<call, MONOSPACE_FONT_STRING, queries, first_call, environ, fs, child_env>>

NextFont == GetMonospaceFontString \/ ChangeDesktopSettings

SpecFont == InitFont /\ [][NextFont]_vars

FontMemoized ==
    /\ queries = (IF call.n > 0 THEN 1 ELSE 0)
    /\ call.n > 0 =>
           /\ first_call.made
           /\ first_call.result = (IF ~first_call.desktop.schema THEN PyStr(<<"monospace">>)
                                   ELSE PyStr(first_call.desktop.font))
           /\ call.result = first_call.result
           /\ MONOSPACE_FONT_STRING = first_call.result

\* C7: over any sequence of get_monospace_font_string calls the settings schema is
\* queried by the first call only, MONOSPACE_FONT_STRING never changes once it is
\* not None, and every call returns the value the first call obtained ('monospace'
\* when the org.gnome.desktop.interface schema is unavailable, the
\* 'monospace-font-name' setting otherwise), also when the desktop setting changes
\* between calls.
C7_Memoized ==
    /\ []FontMemoized
    /\ [][MONOSPACE_FONT_STRING # None => MONOSPACE_FONT_STRING' = MONOSPACE_FONT_STRING]_vars

\* a later call has returned the first value although the setting is another now
C7_Witness ==
    /\ call.op = "get_monospace_font_string"
    /\ call.n = 2
    /\ first_call.desktop.schema
    /\ desktop.schema
    /\ desktop.font # first_call.desktop.font
    /\ call.result = PyStr(first_call.desktop.font)
    /\ queries = 1

----------------------------------------------------------------------------
(* is_gui_app.  fs.programs maps a command to what starting it does: the     *)
(* OSError Popen raises, or the standard output of the child, a sequence of  *)
(* tokens in which a library name is one token.                              *)

contains(output, library) == \E i \in 1..Len(output) : output[i] = library

\* the function with the variable set in os.environ itself
is_gui_app_in_place(command, os_environ, programs) ==
    LET env == [os_environ EXCEPT !["LD_TRACE_LOADED_OBJECTS"] = Set(<<"1">>)]
        started == programs[command]
    IN  IF started.spawn # "ok"
        THEN [result |-> Raise(started.spawn), os_environ |-> env, env |-> env]
        ELSE LET libraries == <<"libX11.so", "libvlc.so", "libwayland-client.so">>
                 matching == {i \in 1..Len(libraries) : contains(started.stdout, libraries[i])}
             IN  [result |-> PyBool(Cardinality(matching) > 0), os_environ |-> env,
                  env |-> env]

\* the value returned or raised, os.environ after the call and the environment
\* handed to Popen
is_gui_app(command, os_environ, programs) ==
    LET env == [os_environ EXCEPT !["LD_TRACE_LOADED_OBJECTS"] = Set(<<"1">>)]
        started == programs[command]
    IN  IF started.spawn # "ok"
        THEN [result |-> Raise(started.spawn), os_environ |-> os_environ, env |-> env]
        ELSE LET libraries == <<"libX11.so", "libvlc.so", "libwayland-client.so">>
                 matching == {i \in 1..Len(libraries) : contains(started.stdout, libraries[i])}
             IN  [result |-> PyBool(Cardinality(matching) > 0), os_environ |-> os_environ,
                  env |-> env]

MaxOutputLen == 3

OutputTokens == {"libc.so", ".6", "libX11.so", "libvlc.so", "libwayland-client.so"}

Starts ==
    [spawn : {"FileNotFoundError", "PermissionError"}, stdout : {<<>>}]
    \cup [spawn : {"ok"}, stdout : BoundedSeq(OutputTokens, MaxOutputLen)]

InitGui ==
    /\ call = [op |-> "is_gui_app", args |-> [command |-> "app"], result |-> Pending]
    /\ environ \in {Env("LD_TRACE_LOADED_OBJECTS", v) : v \in {Unset, Set(<<"1">>), Set(<<"0">>)}}
                   \cup {Env("PATH", Set(<<"/", "bin">>))}
    /\ fs \in {[NoFiles EXCEPT !.programs = [c \in {"app"} |-> b]] : b \in Starts}
    /\ child_env = <<>>
    /\ MONOSPACE_FONT_STRING = None
    /\ desktop = <<>>
    /\ queries = 0
    /\ first_call = NoFirst

IsGuiApp ==
    /\ Entered("is_gui_app")
    /\ LET r == is_gui_app(call.args.command, environ, fs.programs)
       IN  /\ call' = [call EXCEPT !.result = r.result]
           /\ environ' = r.os_environ
           /\ child_env' = r.env
    /\ UNCHANGED <<fs, MONOSPACE_FONT_STRING, desktop, queries, first_call>>

NextGui == IsGuiApp

SpecGui == InitGui /\ [][NextGui]_vars

GuiOutcome ==
    Returned("is_gui_app") =>
        LET started == fs.programs[call.args.command]
        IN  /\ started.spawn # "ok" => call.result = Raise(started.spawn)
            /\ started.spawn = "ok" =>
                   /\ call.result.kind = "return"
                   /\ call.result.type = "bool"
                   /\ call.result.val =
                          (\E i \in 1..Len(started.stdout) :
                               started.stdout[i] \in {"libX11.so", "libvlc.so",
                                                      "libwayland-client.so"})
            /\ child_env["LD_TRACE_LOADED_OBJECTS"] = Set(<<"1">>)
            /\ \A n \in EnvNames \ {"LD_TRACE_LOADED_OBJECTS"} : child_env[n] = environ[n]

\* C8: is_gui_app(command) has exactly two outcomes: when spawning the command
\* fails with an OSError, that same error is raised to the caller and no boolean
\* is returned; when the command runs, the call returns true exactly when its
\* standard output holds libX11.so, libvlc.so or libwayland-client.so.  In both
\* outcomes LD_TRACE_LOADED_OBJECTS=1 is set only in the copy of the environment
\* given to the child, and the environment of the calling process is unchanged.
C8_TwoOutcomes ==
    /\ []GuiOutcome
    /\ [][environ' = environ]_vars

\* the command ran, printed libvlc.so, and the caller's environment has no
\* LD_TRACE_LOADED_OBJECTS
C8_Witness ==
    /\ Returned("is_gui_app")
    /\ fs.programs["app"].spawn = "ok"
    /\ contains(fs.programs["app"].stdout, "libvlc.so")
    /\ call.result = PyBool(TRUE)
    /\ ~environ["LD_TRACE_LOADED_OBJECTS"].set
    /\ child_env["LD_TRACE_LOADED_OBJECTS"] = Set(<<"1">>)

====
